---- MODULE Spec2Model ----
(***************************************************************************)
(* Model of app.py, the LINE bot webhook: the reply pipeline               *)
(* generate_response with its helpers (analyze_search_need, should_search, *)
(* extract_search_query, perform_search, generate_contextual_response,     *)
(* generate_ai_response_http, call_openrouter_api, clean_text).            *)
(*                                                                         *)
(* A Python str is a sequence of one-character strings, one element per    *)
(* code point.  A code point outside ASCII is written as one element named *)
(* by its number ("U+00F0").  Python's None is the one-element sequence    *)
(* <<"None">>, which no str equals because its element is not a character. *)
(***************************************************************************)
EXTENDS Integers, Sequences, FiniteSets, TLC

VARIABLES
    OPENROUTER_API_KEY,  \* app.py:24, the completion credentials (None, "" or a key)
    SEARCH_CONFIG,       \* app.py:52, the dict load_search_config returned
    user_message,        \* the argument of generate_response
    pc,                  \* the position of generate_response in its body
    search_decision,     \* app.py:243, the classifier's text
    search_query,        \* app.py:233 / app.py:249
    search_results,      \* app.py:234 / app.py:250
    reply,               \* the value generate_response returned
    raised,              \* TRUE when an exception left generate_response
    calls,               \* the helper calls made so far, in order
    ddgs,                \* what DDGS().text did in the last perform_search
    text,                \* the argument of clean_text
    cleaned,             \* clean_text(text)
    recleaned,           \* clean_text(clean_text(text))
    CHANNEL_ACCESS_TOKEN,         \* app.py:20
    CHANNEL_SECRET,               \* app.py:21
    ENABLE_SIGNATURE_VALIDATION,  \* app.py:28
    event,               \* the argument of lambda_handler
    hpc,                 \* the position of lambda_handler in its body
    signature,           \* app.py:92
    events,              \* the webhook events handler.handle has still to dispatch
    handled,             \* the number of calls of handle_text_message
    replies,             \* the texts passed to reply_message that the platform took
    lambda_response      \* the dict lambda_handler returned

\* the variables of lambda_handler and of the webhook dispatch
hvars == <<CHANNEL_ACCESS_TOKEN, CHANNEL_SECRET, ENABLE_SIGNATURE_VALIDATION, event,
           hpc, signature, events, handled, replies, lambda_response>>

vars == <<OPENROUTER_API_KEY, SEARCH_CONFIG, user_message, pc, search_decision,
          search_query, search_results, reply, raised, calls, ddgs, text,
          cleaned, recleaned, hvars>>

(***************************************************************************)
(* Python values and str methods                                           *)
(***************************************************************************)
Chars(s) == [i \in 1..Len(s) |-> SubSeq(s, i, i)]

None == <<"None">>

\* Truthy with the empty str taken for a value, as "x is not None" would
TruthyNotNone(x) == x # None

\* bool(x) for x a str or None
Truthy(x) == x # None /\ x # <<>>

\* the least element of a non-empty set of integers
MinOf(S) == CHOOSE m \in S : \A n \in S : m <= n

\* the greatest element of a non-empty set of integers
MaxOf(S) == 0 - MinOf({0 - n : n \in S})

\* the elements of s at the indices in K, in order
KeepIndices(s, K) ==
    LET idx == SelectSeq([i \in 1..Len(s) |-> i], LAMBDA i : i \in K)
    IN  [j \in 1..Len(idx) |-> s[idx[j]]]

UpperAlpha == Chars("ABCDEFGHIJKLMNOPQRSTUVWXYZ")

LowerAlpha == Chars("abcdefghijklmnopqrstuvwxyz")

Digits == Chars("0123456789")

\* the printable ASCII characters, U+0020 to U+007E.  A character of a str is
\* a string of one character when it is one of these or \t, \n, \f, \r, and
\* the name "U+XXXX" of its code point (four or more hexadecimal digits)
\* otherwise, as the grave accent U+0060 is
AsciiPrintable ==
    Chars(" !\"#$%&'()*+,-./0123456789:;<=>?@ABCDEFGHIJKLMNOPQRSTUVWXYZ[\\]^_")
    \o <<"U+0060">> \o Chars("abcdefghijklmnopqrstuvwxyz{|}~")

HexDigits == Chars("0123456789ABCDEF")

\* the index of c in seq
IndexIn(seq, c) == CHOOSE i \in 1..Len(seq) : seq[i] = c

RECURSIVE HexValue(_)
\* int(digits, 16)
HexValue(digits) ==
    IF digits = <<>> THEN 0
    ELSE 16 * HexValue(SubSeq(digits, 1, Len(digits) - 1))
         + IndexIn(HexDigits, digits[Len(digits)]) - 1

\* ord(c)
CodePoint(c) ==
    IF Len(c) > 1 THEN HexValue(SubSeq(Chars(c), 3, Len(c)))
    ELSE IF c = "\t" THEN 9
    ELSE IF c = "\n" THEN 10
    ELSE IF c = "\f" THEN 12
    ELSE IF c = "\r" THEN 13
    ELSE 31 + IndexIn(AsciiPrintable, c)

RECURSIVE HexText(_)
\* '%X' % n
HexText(n) ==
    IF n < 16 THEN HexDigits[n + 1]
    ELSE HexText(n \div 16) \o HexDigits[(n % 16) + 1]

\* chr(n)
CharOf(n) ==
    IF n >= 32 /\ n <= 126 THEN AsciiPrintable[n - 31]
    ELSE IF n = 9 THEN "\t"
    ELSE IF n = 10 THEN "\n"
    ELSE IF n = 12 THEN "\f"
    ELSE IF n = 13 THEN "\r"
    ELSE "U+" \o (IF n < 16 THEN "000" ELSE IF n < 256 THEN "00"
                  ELSE IF n < 4096 THEN "0" ELSE "") \o HexText(n)

\* the characters str.isspace(), str.strip() and the class \s of re take for
\* white space
WhitespaceChars ==
    {"\t", "\n", "U+000B", "\f", "\r", "U+001C", "U+001D", "U+001E", "U+001F", " ",
     "U+0085", "U+00A0", "U+1680", "U+2000", "U+2001", "U+2002", "U+2003", "U+2004",
     "U+2005", "U+2006", "U+2007", "U+2008", "U+2009", "U+200A", "U+2028", "U+2029",
     "U+202F", "U+205F", "U+3000"}

IsSpace(c) == c \in WhitespaceChars

\* the lower-case mappings of str.lower() to one code point: <<first, last,
\* step, delta>> maps the code points first, first + step, ..., last to
\* themselves plus delta
LowerRuns ==
    {<<65, 90, 1, 32>>, <<192, 214, 1, 32>>, <<216, 222, 1, 32>>, <<256, 302, 2, 1>>,
     <<306, 310, 2, 1>>, <<313, 327, 2, 1>>, <<330, 374, 2, 1>>, <<376, 376, 1, -121>>,
     <<377, 381, 2, 1>>, <<385, 385, 1, 210>>, <<386, 388, 2, 1>>, <<390, 390, 1, 206>>,
     <<391, 391, 1, 1>>, <<393, 394, 1, 205>>, <<395, 395, 1, 1>>, <<398, 398, 1, 79>>,
     <<399, 399, 1, 202>>, <<400, 400, 1, 203>>, <<401, 401, 1, 1>>, <<403, 403, 1, 205>>,
     <<404, 404, 1, 207>>, <<406, 406, 1, 211>>, <<407, 407, 1, 209>>, <<408, 408, 1, 1>>,
     <<412, 412, 1, 211>>, <<413, 413, 1, 213>>, <<415, 415, 1, 214>>, <<416, 420, 2, 1>>,
     <<422, 422, 1, 218>>, <<423, 423, 1, 1>>, <<425, 425, 1, 218>>, <<428, 428, 1, 1>>,
     <<430, 430, 1, 218>>, <<431, 431, 1, 1>>, <<433, 434, 1, 217>>, <<435, 437, 2, 1>>,
     <<439, 439, 1, 219>>, <<440, 440, 1, 1>>, <<444, 444, 1, 1>>, <<452, 452, 1, 2>>,
     <<453, 453, 1, 1>>, <<455, 455, 1, 2>>, <<456, 456, 1, 1>>, <<458, 458, 1, 2>>,
     <<459, 475, 2, 1>>, <<478, 494, 2, 1>>, <<497, 497, 1, 2>>, <<498, 500, 2, 1>>,
     <<502, 502, 1, -97>>, <<503, 503, 1, -56>>, <<504, 542, 2, 1>>, <<544, 544, 1, -130>>,
     <<546, 562, 2, 1>>, <<570, 570, 1, 10795>>, <<571, 571, 1, 1>>, <<573, 573, 1, -163>>,
     <<574, 574, 1, 10792>>, <<577, 577, 1, 1>>, <<579, 579, 1, -195>>, <<580, 580, 1, 69>>,
     <<581, 581, 1, 71>>, <<582, 590, 2, 1>>, <<880, 882, 2, 1>>, <<886, 886, 1, 1>>,
     <<895, 895, 1, 116>>, <<902, 902, 1, 38>>, <<904, 906, 1, 37>>, <<908, 908, 1, 64>>,
     <<910, 911, 1, 63>>, <<913, 929, 1, 32>>, <<931, 939, 1, 32>>, <<975, 975, 1, 8>>,
     <<984, 1006, 2, 1>>, <<1012, 1012, 1, -60>>, <<1015, 1015, 1, 1>>, <<1017, 1017, 1, -7>>,
     <<1018, 1018, 1, 1>>, <<1021, 1023, 1, -130>>, <<1024, 1039, 1, 80>>, <<1040, 1071, 1, 32>>,
     <<1120, 1152, 2, 1>>, <<1162, 1214, 2, 1>>, <<1216, 1216, 1, 15>>, <<1217, 1229, 2, 1>>,
     <<1232, 1326, 2, 1>>, <<1329, 1366, 1, 48>>, <<4256, 4293, 1, 7264>>, <<4295, 4295, 1, 7264>>,
     <<4301, 4301, 1, 7264>>, <<5024, 5103, 1, 38864>>, <<5104, 5109, 1, 8>>, <<7312, 7354, 1, -3008>>,
     <<7357, 7359, 1, -3008>>, <<7680, 7828, 2, 1>>, <<7838, 7838, 1, -7615>>, <<7840, 7934, 2, 1>>,
     <<7944, 7951, 1, -8>>, <<7960, 7965, 1, -8>>, <<7976, 7983, 1, -8>>, <<7992, 7999, 1, -8>>,
     <<8008, 8013, 1, -8>>, <<8025, 8031, 2, -8>>, <<8040, 8047, 1, -8>>, <<8072, 8079, 1, -8>>,
     <<8088, 8095, 1, -8>>, <<8104, 8111, 1, -8>>, <<8120, 8121, 1, -8>>, <<8122, 8123, 1, -74>>,
     <<8124, 8124, 1, -9>>, <<8136, 8139, 1, -86>>, <<8140, 8140, 1, -9>>, <<8152, 8153, 1, -8>>,
     <<8154, 8155, 1, -100>>, <<8168, 8169, 1, -8>>, <<8170, 8171, 1, -112>>, <<8172, 8172, 1, -7>>,
     <<8184, 8185, 1, -128>>, <<8186, 8187, 1, -126>>, <<8188, 8188, 1, -9>>, <<8486, 8486, 1, -7517>>,
     <<8490, 8490, 1, -8383>>, <<8491, 8491, 1, -8262>>, <<8498, 8498, 1, 28>>, <<8544, 8559, 1, 16>>,
     <<8579, 8579, 1, 1>>, <<9398, 9423, 1, 26>>, <<11264, 11311, 1, 48>>, <<11360, 11360, 1, 1>>,
     <<11362, 11362, 1, -10743>>, <<11363, 11363, 1, -3814>>, <<11364, 11364, 1, -10727>>, <<11367, 11371, 2, 1>>,
     <<11373, 11373, 1, -10780>>, <<11374, 11374, 1, -10749>>, <<11375, 11375, 1, -10783>>, <<11376, 11376, 1, -10782>>,
     <<11378, 11378, 1, 1>>, <<11381, 11381, 1, 1>>, <<11390, 11391, 1, -10815>>, <<11392, 11490, 2, 1>>,
     <<11499, 11501, 2, 1>>, <<11506, 11506, 1, 1>>, <<42560, 42604, 2, 1>>, <<42624, 42650, 2, 1>>,
     <<42786, 42798, 2, 1>>, <<42802, 42862, 2, 1>>, <<42873, 42875, 2, 1>>, <<42877, 42877, 1, -35332>>,
     <<42878, 42886, 2, 1>>, <<42891, 42891, 1, 1>>, <<42893, 42893, 1, -42280>>, <<42896, 42898, 2, 1>>,
     <<42902, 42920, 2, 1>>, <<42922, 42922, 1, -42308>>, <<42923, 42923, 1, -42319>>, <<42924, 42924, 1, -42315>>,
     <<42925, 42925, 1, -42305>>, <<42926, 42926, 1, -42308>>, <<42928, 42928, 1, -42258>>, <<42929, 42929, 1, -42282>>,
     <<42930, 42930, 1, -42261>>, <<42931, 42931, 1, 928>>, <<42932, 42946, 2, 1>>, <<42948, 42948, 1, -48>>,
     <<42949, 42949, 1, -42307>>, <<42950, 42950, 1, -35384>>, <<42951, 42953, 2, 1>>, <<42960, 42960, 1, 1>>,
     <<42966, 42968, 2, 1>>, <<42997, 42997, 1, 1>>, <<65313, 65338, 1, 32>>, <<66560, 66599, 1, 40>>,
     <<66736, 66771, 1, 40>>, <<66928, 66938, 1, 39>>, <<66940, 66954, 1, 39>>, <<66956, 66962, 1, 39>>,
     <<66964, 66965, 1, 39>>, <<68736, 68786, 1, 64>>, <<71840, 71871, 1, 32>>, <<93760, 93791, 1, 32>>,
     <<125184, 125217, 1, 34>>}

\* the ranges <<first, last>> of the code points str.lower() passes over when
\* it looks for a cased letter around a capital sigma
CaseIgnorableRanges ==
    {<<39, 39>>, <<46, 46>>, <<58, 58>>, <<94, 94>>, <<96, 96>>, <<168, 168>>,
     <<173, 173>>, <<175, 175>>, <<180, 180>>, <<183, 184>>, <<688, 879>>, <<884, 885>>,
     <<890, 890>>, <<900, 901>>, <<903, 903>>, <<1155, 1161>>, <<1369, 1369>>, <<1375, 1375>>,
     <<1425, 1469>>, <<1471, 1471>>, <<1473, 1474>>, <<1476, 1477>>, <<1479, 1479>>, <<1524, 1524>>,
     <<1536, 1541>>, <<1552, 1562>>, <<1564, 1564>>, <<1600, 1600>>, <<1611, 1631>>, <<1648, 1648>>,
     <<1750, 1757>>, <<1759, 1768>>, <<1770, 1773>>, <<1807, 1807>>, <<1809, 1809>>, <<1840, 1866>>,
     <<1958, 1968>>, <<2027, 2037>>, <<2042, 2042>>, <<2045, 2045>>, <<2070, 2093>>, <<2137, 2139>>,
     <<2184, 2184>>, <<2192, 2193>>, <<2200, 2207>>, <<2249, 2306>>, <<2362, 2362>>, <<2364, 2364>>,
     <<2369, 2376>>, <<2381, 2381>>, <<2385, 2391>>, <<2402, 2403>>, <<2417, 2417>>, <<2433, 2433>>,
     <<2492, 2492>>, <<2497, 2500>>, <<2509, 2509>>, <<2530, 2531>>, <<2558, 2558>>, <<2561, 2562>>,
     <<2620, 2620>>, <<2625, 2626>>, <<2631, 2632>>, <<2635, 2637>>, <<2641, 2641>>, <<2672, 2673>>,
     <<2677, 2677>>, <<2689, 2690>>, <<2748, 2748>>, <<2753, 2757>>, <<2759, 2760>>, <<2765, 2765>>,
     <<2786, 2787>>, <<2810, 2815>>, <<2817, 2817>>, <<2876, 2876>>, <<2879, 2879>>, <<2881, 2884>>,
     <<2893, 2893>>, <<2901, 2902>>, <<2914, 2915>>, <<2946, 2946>>, <<3008, 3008>>, <<3021, 3021>>,
     <<3072, 3072>>, <<3076, 3076>>, <<3132, 3132>>, <<3134, 3136>>, <<3142, 3144>>, <<3146, 3149>>,
     <<3157, 3158>>, <<3170, 3171>>, <<3201, 3201>>, <<3260, 3260>>, <<3263, 3263>>, <<3270, 3270>>,
     <<3276, 3277>>, <<3298, 3299>>, <<3328, 3329>>, <<3387, 3388>>, <<3393, 3396>>, <<3405, 3405>>,
     <<3426, 3427>>, <<3457, 3457>>, <<3530, 3530>>, <<3538, 3540>>, <<3542, 3542>>, <<3633, 3633>>,
     <<3636, 3642>>, <<3654, 3662>>, <<3761, 3761>>, <<3764, 3772>>, <<3782, 3782>>, <<3784, 3789>>,
     <<3864, 3865>>, <<3893, 3893>>, <<3895, 3895>>, <<3897, 3897>>, <<3953, 3966>>, <<3968, 3972>>,
     <<3974, 3975>>, <<3981, 3991>>, <<3993, 4028>>, <<4038, 4038>>, <<4141, 4144>>, <<4146, 4151>>,
     <<4153, 4154>>, <<4157, 4158>>, <<4184, 4185>>, <<4190, 4192>>, <<4209, 4212>>, <<4226, 4226>>,
     <<4229, 4230>>, <<4237, 4237>>, <<4253, 4253>>, <<4348, 4348>>, <<4957, 4959>>, <<5906, 5908>>,
     <<5938, 5939>>, <<5970, 5971>>, <<6002, 6003>>, <<6068, 6069>>, <<6071, 6077>>, <<6086, 6086>>,
     <<6089, 6099>>, <<6103, 6103>>, <<6109, 6109>>, <<6155, 6159>>, <<6211, 6211>>, <<6277, 6278>>,
     <<6313, 6313>>, <<6432, 6434>>, <<6439, 6440>>, <<6450, 6450>>, <<6457, 6459>>, <<6679, 6680>>,
     <<6683, 6683>>, <<6742, 6742>>, <<6744, 6750>>, <<6752, 6752>>, <<6754, 6754>>, <<6757, 6764>>,
     <<6771, 6780>>, <<6783, 6783>>, <<6823, 6823>>, <<6832, 6862>>, <<6912, 6915>>, <<6964, 6964>>,
     <<6966, 6970>>, <<6972, 6972>>, <<6978, 6978>>, <<7019, 7027>>, <<7040, 7041>>, <<7074, 7077>>,
     <<7080, 7081>>, <<7083, 7085>>, <<7142, 7142>>, <<7144, 7145>>, <<7149, 7149>>, <<7151, 7153>>,
     <<7212, 7219>>, <<7222, 7223>>, <<7288, 7293>>, <<7376, 7378>>, <<7380, 7392>>, <<7394, 7400>>,
     <<7405, 7405>>, <<7412, 7412>>, <<7416, 7417>>, <<7468, 7530>>, <<7544, 7544>>, <<7579, 7679>>,
     <<8125, 8125>>, <<8127, 8129>>, <<8141, 8143>>, <<8157, 8159>>, <<8173, 8175>>, <<8189, 8190>>,
     <<8203, 8207>>, <<8216, 8217>>, <<8228, 8228>>, <<8231, 8231>>, <<8234, 8238>>, <<8288, 8292>>,
     <<8294, 8303>>, <<8305, 8305>>, <<8319, 8319>>, <<8336, 8348>>, <<8400, 8432>>, <<11388, 11389>>,
     <<11503, 11505>>, <<11631, 11631>>, <<11647, 11647>>, <<11744, 11775>>, <<11823, 11823>>, <<12293, 12293>>,
     <<12330, 12333>>, <<12337, 12341>>, <<12347, 12347>>, <<12441, 12446>>, <<12540, 12542>>, <<40981, 40981>>,
     <<42232, 42237>>, <<42508, 42508>>, <<42607, 42610>>, <<42612, 42621>>, <<42623, 42623>>, <<42652, 42655>>,
     <<42736, 42737>>, <<42752, 42785>>, <<42864, 42864>>, <<42888, 42890>>, <<42994, 42996>>, <<43000, 43001>>,
     <<43010, 43010>>, <<43014, 43014>>, <<43019, 43019>>, <<43045, 43046>>, <<43052, 43052>>, <<43204, 43205>>,
     <<43232, 43249>>, <<43263, 43263>>, <<43302, 43309>>, <<43335, 43345>>, <<43392, 43394>>, <<43443, 43443>>,
     <<43446, 43449>>, <<43452, 43453>>, <<43471, 43471>>, <<43493, 43494>>, <<43561, 43566>>, <<43569, 43570>>,
     <<43573, 43574>>, <<43587, 43587>>, <<43596, 43596>>, <<43632, 43632>>, <<43644, 43644>>, <<43696, 43696>>,
     <<43698, 43700>>, <<43703, 43704>>, <<43710, 43711>>, <<43713, 43713>>, <<43741, 43741>>, <<43756, 43757>>,
     <<43763, 43764>>, <<43766, 43766>>, <<43867, 43871>>, <<43881, 43883>>, <<44005, 44005>>, <<44008, 44008>>,
     <<44013, 44013>>, <<64286, 64286>>, <<64434, 64450>>, <<65024, 65039>>, <<65043, 65043>>, <<65056, 65071>>,
     <<65106, 65106>>, <<65109, 65109>>, <<65279, 65279>>, <<65287, 65287>>, <<65294, 65294>>, <<65306, 65306>>,
     <<65342, 65342>>, <<65344, 65344>>, <<65392, 65392>>, <<65438, 65439>>, <<65507, 65507>>, <<65529, 65531>>,
     <<66045, 66045>>, <<66272, 66272>>, <<66422, 66426>>, <<67456, 67461>>, <<67463, 67504>>, <<67506, 67514>>,
     <<68097, 68099>>, <<68101, 68102>>, <<68108, 68111>>, <<68152, 68154>>, <<68159, 68159>>, <<68325, 68326>>,
     <<68900, 68903>>, <<69291, 69292>>, <<69446, 69456>>, <<69506, 69509>>, <<69633, 69633>>, <<69688, 69702>>,
     <<69744, 69744>>, <<69747, 69748>>, <<69759, 69761>>, <<69811, 69814>>, <<69817, 69818>>, <<69821, 69821>>,
     <<69826, 69826>>, <<69837, 69837>>, <<69888, 69890>>, <<69927, 69931>>, <<69933, 69940>>, <<70003, 70003>>,
     <<70016, 70017>>, <<70070, 70078>>, <<70089, 70092>>, <<70095, 70095>>, <<70191, 70193>>, <<70196, 70196>>,
     <<70198, 70199>>, <<70206, 70206>>, <<70367, 70367>>, <<70371, 70378>>, <<70400, 70401>>, <<70459, 70460>>,
     <<70464, 70464>>, <<70502, 70508>>, <<70512, 70516>>, <<70712, 70719>>, <<70722, 70724>>, <<70726, 70726>>,
     <<70750, 70750>>, <<70835, 70840>>, <<70842, 70842>>, <<70847, 70848>>, <<70850, 70851>>, <<71090, 71093>>,
     <<71100, 71101>>, <<71103, 71104>>, <<71132, 71133>>, <<71219, 71226>>, <<71229, 71229>>, <<71231, 71232>>,
     <<71339, 71339>>, <<71341, 71341>>, <<71344, 71349>>, <<71351, 71351>>, <<71453, 71455>>, <<71458, 71461>>,
     <<71463, 71467>>, <<71727, 71735>>, <<71737, 71738>>, <<71995, 71996>>, <<71998, 71998>>, <<72003, 72003>>,
     <<72148, 72151>>, <<72154, 72155>>, <<72160, 72160>>, <<72193, 72202>>, <<72243, 72248>>, <<72251, 72254>>,
     <<72263, 72263>>, <<72273, 72278>>, <<72281, 72283>>, <<72330, 72342>>, <<72344, 72345>>, <<72752, 72758>>,
     <<72760, 72765>>, <<72767, 72767>>, <<72850, 72871>>, <<72874, 72880>>, <<72882, 72883>>, <<72885, 72886>>,
     <<73009, 73014>>, <<73018, 73018>>, <<73020, 73021>>, <<73023, 73029>>, <<73031, 73031>>, <<73104, 73105>>,
     <<73109, 73109>>, <<73111, 73111>>, <<73459, 73460>>, <<78896, 78904>>, <<92912, 92916>>, <<92976, 92982>>,
     <<92992, 92995>>, <<94031, 94031>>, <<94095, 94111>>, <<94176, 94177>>, <<94179, 94180>>, <<110576, 110579>>,
     <<110581, 110587>>, <<110589, 110590>>, <<113821, 113822>>, <<113824, 113827>>, <<118528, 118573>>, <<118576, 118598>>,
     <<119143, 119145>>, <<119155, 119170>>, <<119173, 119179>>, <<119210, 119213>>, <<119362, 119364>>, <<121344, 121398>>,
     <<121403, 121452>>, <<121461, 121461>>, <<121476, 121476>>, <<121499, 121503>>, <<121505, 121519>>, <<122880, 122886>>,
     <<122888, 122904>>, <<122907, 122913>>, <<122915, 122916>>, <<122918, 122922>>, <<123184, 123197>>, <<123566, 123566>>,
     <<123628, 123631>>, <<125136, 125142>>, <<125252, 125259>>, <<127995, 127999>>, <<917505, 917505>>, <<917536, 917631>>,
     <<917760, 917999>>}

\* the ranges <<first, last>> of the other code points str.lower() takes for
\* cased letters around a capital sigma
CasedRanges ==
    {<<65, 90>>, <<97, 122>>, <<170, 170>>, <<181, 181>>, <<186, 186>>, <<192, 214>>,
     <<216, 246>>, <<248, 442>>, <<444, 447>>, <<452, 659>>, <<661, 687>>, <<880, 883>>,
     <<886, 887>>, <<891, 893>>, <<895, 895>>, <<902, 902>>, <<904, 906>>, <<908, 908>>,
     <<910, 929>>, <<931, 1013>>, <<1015, 1153>>, <<1162, 1327>>, <<1329, 1366>>, <<1376, 1416>>,
     <<4256, 4293>>, <<4295, 4295>>, <<4301, 4301>>, <<4304, 4346>>, <<4349, 4351>>, <<5024, 5109>>,
     <<5112, 5117>>, <<7296, 7304>>, <<7312, 7354>>, <<7357, 7359>>, <<7424, 7467>>, <<7531, 7543>>,
     <<7545, 7578>>, <<7680, 7957>>, <<7960, 7965>>, <<7968, 8005>>, <<8008, 8013>>, <<8016, 8023>>,
     <<8025, 8025>>, <<8027, 8027>>, <<8029, 8029>>, <<8031, 8061>>, <<8064, 8116>>, <<8118, 8124>>,
     <<8126, 8126>>, <<8130, 8132>>, <<8134, 8140>>, <<8144, 8147>>, <<8150, 8155>>, <<8160, 8172>>,
     <<8178, 8180>>, <<8182, 8188>>, <<8450, 8450>>, <<8455, 8455>>, <<8458, 8467>>, <<8469, 8469>>,
     <<8473, 8477>>, <<8484, 8484>>, <<8486, 8486>>, <<8488, 8488>>, <<8490, 8493>>, <<8495, 8500>>,
     <<8505, 8505>>, <<8508, 8511>>, <<8517, 8521>>, <<8526, 8526>>, <<8544, 8575>>, <<8579, 8580>>,
     <<9398, 9449>>, <<11264, 11387>>, <<11390, 11492>>, <<11499, 11502>>, <<11506, 11507>>, <<11520, 11557>>,
     <<11559, 11559>>, <<11565, 11565>>, <<42560, 42605>>, <<42624, 42651>>, <<42786, 42863>>, <<42865, 42887>>,
     <<42891, 42894>>, <<42896, 42954>>, <<42960, 42961>>, <<42963, 42963>>, <<42965, 42969>>, <<42997, 42998>>,
     <<43002, 43002>>, <<43824, 43866>>, <<43872, 43880>>, <<43888, 43967>>, <<64256, 64262>>, <<64275, 64279>>,
     <<65313, 65338>>, <<65345, 65370>>, <<66560, 66639>>, <<66736, 66771>>, <<66776, 66811>>, <<66928, 66938>>,
     <<66940, 66954>>, <<66956, 66962>>, <<66964, 66965>>, <<66967, 66977>>, <<66979, 66993>>, <<66995, 67001>>,
     <<67003, 67004>>, <<68736, 68786>>, <<68800, 68850>>, <<71840, 71903>>, <<93760, 93823>>, <<119808, 119892>>,
     <<119894, 119964>>, <<119966, 119967>>, <<119970, 119970>>, <<119973, 119974>>, <<119977, 119980>>, <<119982, 119993>>,
     <<119995, 119995>>, <<119997, 120003>>, <<120005, 120069>>, <<120071, 120074>>, <<120077, 120084>>, <<120086, 120092>>,
     <<120094, 120121>>, <<120123, 120126>>, <<120128, 120132>>, <<120134, 120134>>, <<120138, 120144>>, <<120146, 120485>>,
     <<120488, 120512>>, <<120514, 120538>>, <<120540, 120570>>, <<120572, 120596>>, <<120598, 120628>>, <<120630, 120654>>,
     <<120656, 120686>>, <<120688, 120712>>, <<120714, 120744>>, <<120746, 120770>>, <<120772, 120779>>, <<122624, 122633>>,
     <<122635, 122654>>, <<125184, 125251>>, <<127280, 127305>>, <<127312, 127337>>, <<127344, 127369>>}

CaseIgnorable(c) ==
    LET n == CodePoint(c) IN \E r \in CaseIgnorableRanges : r[1] <= n /\ n <= r[2]

Cased(c) == LET n == CodePoint(c) IN \E r \in CasedRanges : r[1] <= n /\ n <= r[2]

\* c.lower() for a str c of one character, a str of one or two characters
lower_char(c) ==
    IF Len(c) = 1
    THEN IF \E i \in 1..Len(UpperAlpha) : UpperAlpha[i] = c
         THEN <<LowerAlpha[IndexIn(UpperAlpha, c)]>>
         ELSE <<c>>
    ELSE IF c = "U+0130" THEN <<"i", "U+0307">>
    ELSE LET n == CodePoint(c)
             run == {r \in LowerRuns : r[1] <= n /\ n <= r[2] /\ (n - r[1]) % r[3] = 0}
         IN  IF run = {} THEN <<c>> ELSE <<CharOf(n + (CHOOSE r \in run : TRUE)[4])>>

\* the capital sigma s[i] is final: the nearest character before it that is
\* not case-ignorable is cased, and the nearest one after it is not
FinalSigma(s, i) ==
    LET before == {j \in 1..(i - 1) : ~CaseIgnorable(s[j])}
        after == {j \in (i + 1)..Len(s) : ~CaseIgnorable(s[j])}
    IN  /\ before # {}
        /\ Cased(s[MaxOf(before)])
        /\ after = {} \/ ~Cased(s[MinOf(after)])

\* what str.lower() puts for s[i]
lower_at(s, i) ==
    IF s[i] = "U+03A3" THEN <<IF FinalSigma(s, i) THEN "U+03C2" ELSE "U+03C3">>
    ELSE lower_char(s[i])

\* str.lower()
lower(s) ==
    LET two == {k \in 1..Len(s) : Len(s[k]) > 1 /\ Len(lower_at(s, k)) = 2}
        start(i) == i + Cardinality({k \in two : k < i})
        src(j) == MaxOf({i \in 1..Len(s) : start(i) <= j})
    IN  IF two = {} THEN [i \in 1..Len(s) |-> lower_at(s, i)[1]]
        ELSE [j \in 1..(Len(s) + Cardinality(two)) |->
                 lower_at(s, src(j))[j - start(src(j)) + 1]]

\* sub in s
Contains(s, sub) ==
    \E i \in 1..(Len(s) - Len(sub) + 1) : SubSeq(s, i, i + Len(sub) - 1) = sub

\* s.startswith(prefix)
startswith(s, prefix) ==
    Len(s) >= Len(prefix) /\ SubSeq(s, 1, Len(prefix)) = prefix

\* s.strip()
strip(s) ==
    LET keep == {i \in 1..Len(s) : ~IsSpace(s[i])}
    IN  IF keep = {} THEN <<>> ELSE SubSeq(s, MinOf(keep), MaxOf(keep))

\* s[:n] for n >= 0
SliceTo(s, n) == SubSeq(s, 1, IF n < Len(s) THEN n ELSE Len(s))

\* s[n:] for n >= 0
SliceFrom(s, n) == SubSeq(s, n + 1, Len(s))

RECURSIVE str_int(_)
\* str(n) for n >= 0
str_int(n) ==
    IF n < 10 THEN <<Digits[n + 1]>>
    ELSE str_int(n \div 10) \o <<Digits[(n % 10) + 1]>>

\* d.get(k, default) for a dict d
Get(d, k, default) == IF k \in DOMAIN d THEN d[k] ELSE default

(***************************************************************************)
(* Regular expressions of app.py, matched as Python's re matches them:     *)
(* leftmost match, greedy quantifiers, backtracking.                       *)
(***************************************************************************)
\* the first index j >= i with j past the end of s or s[j] outside class:
\* where a greedy run of characters of the class, begun at i, ends
RunEnd(s, i, class) ==
    MinOf({j \in i..Len(s) : s[j] \notin class} \cup {Len(s) + 1})

\* the first index j >= i with j past the end of s or s[j] in stop: where a
\* greedy run of characters other than those of stop, begun at i, ends
RunEndBefore(s, i, stop) ==
    MinOf({j \in i..Len(s) : s[j] \in stop} \cup {Len(s) + 1})

\* re.sub(r'\s+', ' ', s): of each run of whitespace the first character stays,
\* as a space
CollapseWhitespace(s) ==
    LET kept == KeepIndices(s, {i \in 1..Len(s) :
                                    ~IsSpace(s[i]) \/ i = 1 \/ ~IsSpace(s[i - 1])})
    IN  [j \in 1..Len(kept) |-> IF IsSpace(kept[j]) THEN " " ELSE kept[j]]

\* the class [a-zA-Z0-9#]
EntityChars ==
    {UpperAlpha[i] : i \in 1..Len(UpperAlpha)} \cup {LowerAlpha[i] : i \in 1..Len(LowerAlpha)}
    \cup {Digits[i] : i \in 1..Len(Digits)} \cup {"#"}

\* the index of the ';' closing a match of &[a-zA-Z0-9#]+; that starts at i, or 0
EntityEnd(s, i) ==
    IF s[i] # "&" THEN 0
    ELSE LET e == RunEnd(s, i + 1, EntityChars)
         IN  IF e > i + 1 /\ e <= Len(s) /\ s[e] = ";" THEN e ELSE 0

\* s[i] lies in a match of &[a-zA-Z0-9#]+; : a match holds no '&' but its
\* first character, so it starts at the last '&' at or before i
InEntity(s, i) ==
    LET amp == MaxOf({p \in 1..i : s[p] = "&"} \cup {0})
    IN  amp >= 1 /\ EntityEnd(s, amp) >= i

\* re.sub(r'&[a-zA-Z0-9#]+;', '', s)
RemoveEntities(s) == KeepIndices(s, {i \in 1..Len(s) : ~InEntity(s, i)})

\* s[i] lies in a match of <[^>]+> : a match ends at the first '>' at or after
\* i and starts at the first '<' after the '>' before it, which must not be
\* the character right before the closing '>' (the + needs one character)
InTag(s, i) ==
    LET close == RunEndBefore(s, i, {">"})
        from == MaxOf({g \in 1..(i - 1) : s[g] = ">"} \cup {0}) + 1
        start == MinOf({p \in from..(close - 1) : s[p] = "<"} \cup {close})
    IN  close <= Len(s) /\ start <= i /\ start + 1 < close

\* re.sub(r'<[^>]+>', '', s)
RemoveTags(s) == KeepIndices(s, {i \in 1..Len(s) : ~InTag(s, i)})

\* app.py:459-473
clean_text(t) ==
    IF ~Truthy(t) THEN <<>>
    ELSE RemoveTags(RemoveEntities(CollapseWhitespace(strip(t))))

SearchTagYes == Chars("<search>yes</search>")

\* the characters a letter p of the patterns of app.py:321 and app.py:336
\* matches under re.IGNORECASE: its two cases and, for s, U+017F (long s);
\* any other character of the patterns matches itself
IgnoreCaseClass(p) ==
    IF p = "s" THEN {"s", "S", "U+017F"}
    ELSE IF \E i \in 1..Len(LowerAlpha) : LowerAlpha[i] = p
    THEN {p, UpperAlpha[IndexIn(LowerAlpha, p)]}
    ELSE {p}

\* the literal pattern, given in lower case, matches s at p under re.IGNORECASE
LiteralAt(s, p, pattern) ==
    /\ p + Len(pattern) - 1 <= Len(s)
    /\ \A k \in 1..Len(pattern) : s[p + k - 1] \in IgnoreCaseClass(pattern[k])

\* should_search looking for the tag in the letter case of the prompt only
should_searchCaseSensitive(analysis_response) ==
    /\ Truthy(analysis_response)
    /\ Contains(analysis_response, Chars("<search>YES</search>"))

\* should_search matching the tag whatever it encloses
should_searchAnyAnswer(analysis_response) ==
    /\ Truthy(analysis_response)
    /\ Contains(lower(analysis_response), Chars("<search>"))

\* app.py:312-322
should_search(analysis_response) ==
    /\ Truthy(analysis_response)
    /\ \E p \in 1..Len(analysis_response) : LiteralAt(analysis_response, p, SearchTagYes)

SearchColon == Chars("search:")

IsQuote(c) == c \in {"\"", "'"}

\* the characters the class [^"'.\n] leaves out
QueryStops == {"\"", "'", ".", "\n"}

QueryRun(s, g) == SubSeq(s, g, RunEndBefore(s, g, QueryStops) - 1)

\* group 1 of Search:\s*["']?([^"'.\n]+)["']? matched with "Search:" at p, or
\* None: after the whitespace an optional quote, then the run of query
\* characters; when that fails \s* gives whitespace back and the run starts
\* at the last whitespace character that is not a newline
SearchMatchAt(s, p) ==
    LET a == p + Len(SearchColon)
        q == RunEnd(s, a, WhitespaceChars)
        back == MaxOf({r \in a..(q - 1) : s[r] \notin QueryStops} \cup {0})
    IN  IF q + 1 <= Len(s) /\ IsQuote(s[q]) /\ s[q + 1] \notin QueryStops
        THEN QueryRun(s, q + 1)
        ELSE IF q <= Len(s) /\ s[q] \notin QueryStops
        THEN QueryRun(s, q)
        ELSE IF back >= a
        THEN QueryRun(s, back)
        ELSE None

\* re.search(r'Search:\s*["\']?([^"\'.\n]+)["\']?', s, re.IGNORECASE).group(1), or None
SearchMatch(s) ==
    LET at == {p \in 1..(Len(s) - Len(SearchColon) + 1) :
                   /\ LiteralAt(s, p, SearchColon)
                   /\ SearchMatchAt(s, p) # None}
    IN  IF at = {} THEN None ELSE SearchMatchAt(s, MinOf(at))

\* app.py:325-345
extract_search_query(analysis_response, message) ==
    IF ~Truthy(analysis_response) THEN message
    ELSE LET group == SearchMatch(analysis_response)
         IN  IF group # None /\ Truthy(strip(group)) THEN strip(group)
             ELSE message

(***************************************************************************)
(* The fixed texts of app.py                                               *)
(***************************************************************************)
\* app.py:223
GreetingText ==
    Chars("Hello! How can I help you today? I can search the web for current information or answer general questions!")

\* the three code points app.py:225 has before each capability line
Bullet == <<"U+00E2", "U+20AC", "U+00A2">>

\* app.py:225
HelpText ==
    Chars("I'm a LINE bot with AI and web search capabilities!\n\n")
    \o Bullet \o Chars(" Ask me anything and I'll decide if I need to search for current information\n")
    \o Bullet \o Chars(" Say 'search [query]' for direct web search\n")
    \o Bullet \o Chars(" I can help with current events, weather, news, tech updates, and more!")

\* app.py:229
TimeText(current_time) == Chars("Current time: ") \o current_time

\* app.py:238
NothingFoundText == Chars("Sorry, I couldn't find any relevant information.")

\* app.py:235, app.py:253
CouldntFindPrefix == Chars("I couldn't find")

\* app.py:270
FallbackText(message) ==
    Chars("I received your message: ") \o message
    \o Chars("\nI'm experiencing some technical issues. Please try again later.")

\* app.py:431
NoResultsText(query) ==
    Chars("I couldn't find any results for '") \o query
    \o Chars("'. Try a different search term!")

\* app.py:456
SearchErrorText(query) ==
    Chars("Sorry, I encountered an error while searching for '") \o query
    \o Chars("'. Please try again later.")

\* app.py:434
HeaderText(query) ==
    <<"U+00F0", "U+0178", "U+201D">> \o Chars(" Search results for '") \o query
    \o Chars("':\n")

\* app.py:450
TruncationHint ==
    Chars("...\n\n") \o <<"U+00F0", "U+0178", "U+2019", "U+00A1">>
    \o Chars(" Try more specific search terms for better results!")

\* app.py:358
ContextMessage(message, results) ==
    Chars("User question: ") \o message \o Chars("\n\nSearch results:\n") \o results
    \o Chars("\n\nPlease provide a helpful response based on this information.")

NoTitle == Chars("No title")

NoDescription == Chars("No description")

(***************************************************************************)
(* Configuration (app.py:39-52)                                            *)
(***************************************************************************)
EmptyDict == [k \in {} |-> k]

DefaultMaxResults == 3

DefaultSummaryLength == 300

FallbackMaxResults == 3

FallbackSummaryLength == 200

TitleLimit == 80

ResponseLimit == 1800

SearchPrefixLen == 7

\* app.py:47-50, the dict returned when search_config.json cannot be loaded
FallbackConfig ==
    [search_topics |-> EmptyDict,
     search_settings |-> [max_results |-> FallbackMaxResults,
                          summary_length |-> FallbackSummaryLength]]

\* app.py:39-50; file.readable is FALSE when search_config.json is missing or
\* unparsable, otherwise file.content is the dict json.load returns
load_search_config(file) == IF file.readable THEN file.content ELSE FallbackConfig

(***************************************************************************)
(* perform_search (app.py:414-456)                                         *)
(***************************************************************************)
RECURSIVE JoinNl(_)
\* '\n'.join(parts)
JoinNl(parts) ==
    IF parts = <<>> THEN <<>>
    ELSE IF Len(parts) = 1 THEN parts[1]
    ELSE parts[1] \o <<"\n">> \o JoinNl(Tail(parts))

\* app.py:423
MaxResultsSetting ==
    Get(Get(SEARCH_CONFIG, "search_settings", EmptyDict), "max_results", DefaultMaxResults)

\* app.py:424
SummaryLengthSetting ==
    Get(Get(SEARCH_CONFIG, "search_settings", EmptyDict), "summary_length",
        DefaultSummaryLength)

\* ResultEntry with the snippet cleaned first and cut afterwards
ResultEntryCleanedFirst(i, result) ==
    LET title == SliceTo(Get(result, "title", NoTitle), TitleLimit)
        snippet == SliceTo(clean_text(Get(result, "body", NoDescription)),
                           SummaryLengthSetting)
    IN  str_int(i) \o Chars(". ") \o title \o <<"\n">> \o snippet \o Chars("...\n")

\* app.py:437-444, the entry of the i-th result
ResultEntry(i, result) ==
    LET title == SliceTo(Get(result, "title", NoTitle), TitleLimit)
        snippet == clean_text(SliceTo(Get(result, "body", NoDescription),
                                      SummaryLengthSetting))
    IN  str_int(i) \o Chars(". ") \o title \o <<"\n">> \o snippet \o Chars("...\n")

\* app.py:434-446, the rendering before the length limit
RenderResults(query, results) ==
    LET shown == SliceTo(results, MaxResultsSetting)
    IN  JoinNl(<<HeaderText(query)>>
               \o [i \in 1..Len(shown) |-> ResultEntry(i, shown[i])])

\* LimitResponse with the hint appended to the whole response, not to its cut
LimitResponseUncut(response) ==
    IF Len(response) > ResponseLimit THEN response \o TruncationHint
    ELSE response

\* app.py:449-450
LimitResponse(response) ==
    IF Len(response) > ResponseLimit
    THEN SliceTo(response, ResponseLimit) \o TruncationHint
    ELSE response

\* app.py:414-456; provider is what DDGS().text(query, max_results) did:
\* status "error" when it raised, else status "ok" and the list it returned
perform_search(query, provider) ==
    IF provider.status # "ok" THEN SearchErrorText(query)
    ELSE IF provider.results = <<>> THEN NoResultsText(query)
    ELSE LimitResponse(RenderResults(query, provider.results))

(***************************************************************************)
(* The completion client and the helpers built on it.  http is what the    *)
(* POST of app.py:389 did: status "ok" with the content of the first       *)
(* choice, "transport" when requests.post or raise_for_status raised,      *)
(* "malformed" when the body had not the expected shape.  A call yields    *)
(* [raised, value]: the exception case or the returned value.              *)
(***************************************************************************)
Returned(v) == [raised |-> FALSE, value |-> v]

Raised == [raised |-> TRUE, value |-> None]

\* app.py:364-393
call_openrouter_api(system_prompt, user_content, http) ==
    IF ~Truthy(OPENROUTER_API_KEY) THEN Returned(None)
    ELSE IF http.status # "ok" THEN Raised
    ELSE Returned(strip(http.content))

\* app.py:273-309
analyze_search_need(message, http) ==
    call_openrouter_api("analysis", message, http)

\* app.py:348-361
generate_contextual_response(message, results, http) ==
    LET response == call_openrouter_api("contextual", ContextMessage(message, results), http)
    IN  IF response.raised THEN Raised
        ELSE IF Truthy(response.value) THEN response
        ELSE Returned(results)

\* app.py:396-411
generate_ai_response_http(message, http) ==
    IF ~Truthy(OPENROUTER_API_KEY) THEN Returned(None)
    ELSE call_openrouter_api("assistant", message, http)

\* one entry of the call log: the helper called, its argument (the query or the
\* user content), whether a request left the process, whether it failed, and
\* what came back (the completion text or the text perform_search returned;
\* None when nothing came back)
Call(fn, arg, sent, failed, out) ==
    [fn |-> fn, arg |-> arg, sent |-> sent, failed |-> failed, out |-> out]

CompletionCall(fn, arg, http) ==
    Call(fn, arg, Truthy(OPENROUTER_API_KEY),
         Truthy(OPENROUTER_API_KEY) /\ http.status # "ok",
         call_openrouter_api(fn, arg, http).value)

SearchCall(query, provider) ==
    Call("perform_search", query, TRUE, provider.status # "ok",
         perform_search(query, provider))

(***************************************************************************)
(* The command tests of generate_response (app.py:219-232)                 *)
(***************************************************************************)
\* IsGreeting with the test for 'hi' left out
IsGreetingHelloOnly(message) == Contains(lower(message), Chars("hello"))

\* app.py:222
IsGreeting(message) ==
    Contains(lower(message), Chars("hello")) \/ Contains(lower(message), Chars("hi"))

\* IsHelp as a test of the start of the message
IsHelpPrefix(message) == startswith(lower(message), Chars("help"))

\* app.py:224
IsHelp(message) == Contains(lower(message), Chars("help"))

\* app.py:226
IsTime(message) == Contains(lower(message), Chars("time"))

\* app.py:232
IsSearchCommand(message) == startswith(lower(message), Chars("search "))

\* CommandQuery without the strip()
CommandQueryUntrimmed(message) == SliceFrom(message, SearchPrefixLen)

\* app.py:233
CommandQuery(message) == strip(SliceFrom(message, SearchPrefixLen))

\* app.py:235, app.py:253
FoundResults(results) == Truthy(results) /\ ~startswith(results, CouldntFindPrefix)

(***************************************************************************)
(* Inputs                                                                  *)
(***************************************************************************)
Messages ==
    {Chars("hello"), Chars("Hi there"), Chars("this"), Chars("help"),
     Chars("HELP me"), Chars("hello help"), Chars("what time"), Chars("hi time"),
     Chars("search hi"), Chars("search help"), Chars("search timers"),
     Chars("Search  cats "), Chars("search ab"), Chars("search "),
     Chars("SEARCH a.b"), Chars("What's new?"), Chars("ab"), Chars("search"),
     Chars("research x"), <<>>,
     Chars("h") \o <<"U+0130">>, <<"U+00C9">> \o Chars("t") \o <<"U+00E9">>,
     Chars("search ") \o <<"U+00A0">> \o Chars("ab") \o <<"U+3000">>,
     <<"U+017F">> \o Chars("earch ab")}

Keys == {None, <<>>, Chars("sk")}

Clock == {Chars("2025-01-01 09:30:00"), Chars("2026-10-31 23:59:59")}

SmallMaxResults == 2

SmallSummaryLength == 12

ReadableFile(content) == [readable |-> TRUE, content |-> content]

UnreadableFile == [readable |-> FALSE, content |-> EmptyDict]

\* search_config.json: missing or unparsable, or the dict json.load returns
ConfigFiles ==
    {UnreadableFile,
     ReadableFile([search_settings |-> [max_results |-> SmallMaxResults,
                                        summary_length |-> SmallSummaryLength]]),
     ReadableFile([search_topics |-> EmptyDict]),
     ReadableFile([search_settings |-> [max_results |-> SmallMaxResults]])}

HttpOk(content) == [status |-> "ok", content |-> content]

HttpFailures ==
    {[status |-> "transport", content |-> None],
     [status |-> "malformed", content |-> None]}

AnswerContents ==
    {Chars("It is sunny."), Chars(" ok \n"), <<>>, Chars("  "),
     <<"U+00A0">> \o Chars("fine") \o <<"U+0085">>}

AnswerOutcomes == HttpFailures \cup {HttpOk(c) : c \in AnswerContents}

Tags == {Chars("YES"), Chars("NO"), Chars("yes")}

Rationales == {Chars(" "), Chars(" Need data. "), Chars(" Web search: needed. ")}

Quotes == {<<>>, <<"\"">>}

QueryTexts == {Chars("weather today"), Chars("node.js"), Chars("what's up"), Chars(" ab ")}

\* <search>TAG</search> RATIONALE Search: "X"
ClassifierText(tag, rationale, quote, x) ==
    Chars("<search>") \o tag \o Chars("</search>") \o rationale
    \o Chars("Search: ") \o quote \o x \o quote

ClassifierContents ==
    {ClassifierText(t, r, q, x) : t \in Tags, r \in Rationales, q \in Quotes, x \in QueryTexts}
    \cup {Chars("<search>NO</search> not <search>YES</search>"),
          Chars("<search>YES</search> no suggestion"),
          Chars("<search>NO</search> General knowledge."),
          Chars("no tag"), <<>>, Chars(" \n"),
          Chars("<") \o <<"U+017F">> \o Chars("earch>YES</search> Search: \"cats\""),
          Chars("<search>NO</search> <") \o <<"U+017F">> \o Chars("earch>yes</search>"),
          Chars("<search>YES</search> Search:") \o <<"U+00A0">> \o Chars("\"cats\""),
          Chars("<search>YES</search> ") \o <<"U+017F">> \o Chars("earch: cats")
          \o <<"U+3000">>}

ClassifierOutcomes == HttpFailures \cup {HttpOk(c) : c \in ClassifierContents}

Result1 ==
    [title |-> Chars("Sunny"), body |-> Chars("Clear &amp; warm <b>today</b>"),
     href |-> Chars("u1")]

Result2 ==
    [title |-> Chars("Rain"),
     body |-> Chars(" wet\n") \o <<"U+00A0">> \o Chars("and cold") \o <<"U+3000">>,
     href |-> Chars("u2")]

Result3 == [href |-> Chars("u3")]

ProviderOk(results) == [status |-> "ok", results |-> results]

ProviderError == [status |-> "error", results |-> <<>>]

\* the value of ddgs before any search
NoProvider == [status |-> "none", results |-> <<>>]

ProviderOutcomes ==
    {ProviderError, ProviderOk(<<>>), ProviderOk(<<Result1>>),
     ProviderOk(<<Result2, Result3>>), ProviderOk(<<Result1, Result2, Result3, Result1>>)}

(***************************************************************************)
(* The values of lambda_handler (app.py:75-133)                            *)
(***************************************************************************)
\* a JSON null where the code expects a dict (a dict is a function here, and
\* a str a sequence)
JsonNull == [json_null |-> TRUE]

\* the value of lambda_response before lambda_handler returned
NoResponse == [statusCode |-> 0, body |-> <<>>]

\* no request is being handled: the state of the module after its import
NoRequest ==
    /\ CHANNEL_ACCESS_TOKEN = None
    /\ CHANNEL_SECRET = None
    /\ ENABLE_SIGNATURE_VALIDATION = TRUE
    /\ event = EmptyDict
    /\ hpc = "idle"
    /\ signature = None
    /\ events = <<>>
    /\ handled = 0
    /\ replies = <<>>
    /\ lambda_response = NoResponse

(***************************************************************************)
(* generate_response (app.py:210-270), one action per stretch of its body  *)
(* between two external calls                                              *)
(***************************************************************************)
Init ==
    /\ OPENROUTER_API_KEY \in Keys
    /\ \E file \in ConfigFiles : SEARCH_CONFIG = load_search_config(file)
    /\ user_message \in Messages
    /\ pc = "start"
    /\ search_decision = None
    /\ search_query = None
    /\ search_results = None
    /\ reply = None
    /\ raised = FALSE
    /\ calls = <<>>
    /\ ddgs = NoProvider
    /\ text = None
    /\ cleaned = None
    /\ recleaned = None
    /\ NoRequest

Return(value) == reply' = value /\ raised' = FALSE /\ pc' = "done"

Raise == reply' = None /\ raised' = TRUE /\ pc' = "done"

Goto(label) == pc' = label /\ UNCHANGED <<reply, raised>>

\* app.py:219-232, 241, 270: the command tests and the choice of the path
CommandCheck ==
    /\ pc = "start"
    /\ IF IsGreeting(user_message) THEN Return(GreetingText)
       ELSE IF IsHelp(user_message) THEN Return(HelpText)
       ELSE IF IsTime(user_message) THEN \E now \in Clock : Return(TimeText(now))
       ELSE IF IsSearchCommand(user_message) THEN Goto("explicit_search")
       ELSE IF Truthy(OPENROUTER_API_KEY) THEN Goto("classify")
       ELSE Return(FallbackText(user_message))
    /\ UNCHANGED hvars
    /\ UNCHANGED <<OPENROUTER_API_KEY, SEARCH_CONFIG, user_message, search_decision,
                   search_query, search_results, calls, ddgs, text, cleaned, recleaned>>

\* app.py:233-238
ExplicitSearch ==
    /\ pc = "explicit_search"
    /\ \E provider \in ProviderOutcomes :
         LET query == CommandQuery(user_message)
             results == perform_search(query, provider)
         IN  /\ search_query' = query
             /\ search_results' = results
             /\ ddgs' = provider
             /\ calls' = Append(calls, SearchCall(query, provider))
             /\ IF FoundResults(results) THEN Goto("explicit_contextual")
                ELSE Return(IF Truthy(results) THEN results ELSE NothingFoundText)
    /\ UNCHANGED hvars
    /\ UNCHANGED <<OPENROUTER_API_KEY, SEARCH_CONFIG, user_message, search_decision,
                   text, cleaned, recleaned>>

\* app.py:236
ExplicitContextual ==
    /\ pc = "explicit_contextual"
    /\ \E http \in AnswerOutcomes :
         LET r == generate_contextual_response(user_message, search_results, http)
         IN  /\ calls' = Append(calls, CompletionCall("generate_contextual_response",
                                    ContextMessage(user_message, search_results), http))
             /\ IF r.raised THEN Raise ELSE Return(r.value)
    /\ UNCHANGED hvars
    /\ UNCHANGED <<OPENROUTER_API_KEY, SEARCH_CONFIG, user_message, search_decision,
                   search_query, search_results, ddgs, text, cleaned, recleaned>>

\* app.py:243-247, 258-261
Classify ==
    /\ pc = "classify"
    /\ \E http \in ClassifierOutcomes :
         LET r == analyze_search_need(user_message, http)
         IN  /\ calls' = Append(calls, CompletionCall("analyze_search_need",
                                                      user_message, http))
             /\ IF r.raised
                THEN Goto("except") /\ UNCHANGED search_decision
                ELSE /\ search_decision' = r.value
                     /\ IF should_search(r.value) THEN Goto("llm_search")
                        ELSE Goto("direct")
    /\ UNCHANGED hvars
    /\ UNCHANGED <<OPENROUTER_API_KEY, SEARCH_CONFIG, user_message, search_query,
                   search_results, ddgs, text, cleaned, recleaned>>

\* app.py:249-257
LlmSearch ==
    /\ pc = "llm_search"
    /\ \E provider \in ProviderOutcomes :
         LET query == extract_search_query(search_decision, user_message)
             results == perform_search(query, provider)
         IN  /\ search_query' = query
             /\ search_results' = results
             /\ ddgs' = provider
             /\ calls' = Append(calls, SearchCall(query, provider))
             /\ IF FoundResults(results) THEN Goto("llm_contextual")
                ELSE Goto("direct")
    /\ UNCHANGED hvars
    /\ UNCHANGED <<OPENROUTER_API_KEY, SEARCH_CONFIG, user_message, search_decision,
                   text, cleaned, recleaned>>

\* app.py:254
LlmContextual ==
    /\ pc = "llm_contextual"
    /\ \E http \in AnswerOutcomes :
         LET r == generate_contextual_response(user_message, search_results, http)
         IN  /\ calls' = Append(calls, CompletionCall("generate_contextual_response",
                                    ContextMessage(user_message, search_results), http))
             /\ IF r.raised THEN Goto("except") ELSE Return(r.value)
    /\ UNCHANGED hvars
    /\ UNCHANGED <<OPENROUTER_API_KEY, SEARCH_CONFIG, user_message, search_decision,
                   search_query, search_results, ddgs, text, cleaned, recleaned>>

\* app.py:257, 261
DirectAnswer ==
    /\ pc = "direct"
    /\ \E http \in AnswerOutcomes :
         LET r == generate_ai_response_http(user_message, http)
         IN  /\ calls' = Append(calls, CompletionCall("generate_ai_response_http",
                                                      user_message, http))
             /\ IF r.raised THEN Goto("except") ELSE Return(r.value)
    /\ UNCHANGED hvars
    /\ UNCHANGED <<OPENROUTER_API_KEY, SEARCH_CONFIG, user_message, search_decision,
                   search_query, search_results, ddgs, text, cleaned, recleaned>>

\* ExceptFallback answering with the fallback string, without another call
ExceptFallbackWithoutCall ==
    /\ pc = "except"
    /\ Return(FallbackText(user_message))
    /\ UNCHANGED hvars
    /\ UNCHANGED <<OPENROUTER_API_KEY, SEARCH_CONFIG, user_message, search_decision,
                   search_query, search_results, calls, ddgs, text, cleaned, recleaned>>

\* app.py:263-270, the handler of the try block
ExceptFallback ==
    /\ pc = "except"
    /\ IF Truthy(OPENROUTER_API_KEY)
       THEN \E http \in AnswerOutcomes :
              LET r == generate_ai_response_http(user_message, http)
              IN  /\ calls' = Append(calls, CompletionCall("generate_ai_response_http",
                                                           user_message, http))
                  /\ IF r.raised THEN Raise ELSE Return(r.value)
       ELSE Return(FallbackText(user_message)) /\ UNCHANGED calls
    /\ UNCHANGED hvars
    /\ UNCHANGED <<OPENROUTER_API_KEY, SEARCH_CONFIG, user_message, search_decision,
                   search_query, search_results, ddgs, text, cleaned, recleaned>>

Next ==
    \/ CommandCheck
    \/ ExplicitSearch
    \/ ExplicitContextual
    \/ Classify
    \/ LlmSearch
    \/ LlmContextual
    \/ DirectAnswer
    \/ ExceptFallback

Spec == Init /\ [][Next]_vars

(***************************************************************************)
(* perform_search on its own, with inputs long enough to reach the limits  *)
(* of app.py:437, 438 and 449                                              *)
(***************************************************************************)
Rep(c, n) == [i \in 1..n |-> c]

MidQueryLen == 700

\* with Result3 alone the rendering of a query of this length has
\* ResponseLimit characters
LongQueryLen == 1742

LongTitleLen == 85

LongBodyLen == 320

BigMaxResults == 5

SearchQueries ==
    {Chars("ab"), <<>>, Rep("q", MidQueryLen), Rep("q", LongQueryLen),
     Rep("q", LongQueryLen + 1)}

LongResult == [title |-> Rep("t", LongTitleLen), body |-> Rep("b", LongBodyLen)]

SearchConfigFiles ==
    ConfigFiles
    \cup {ReadableFile([search_settings |-> [max_results |-> BigMaxResults]])}

SearchProviderOutcomes ==
    ProviderOutcomes
    \cup {ProviderOk(<<Result3>>), ProviderOk(<<LongResult, LongResult, LongResult>>),
          ProviderOk(<<LongResult, Result1, LongResult, LongResult, LongResult,
                       LongResult>>)}

InitSearch ==
    /\ OPENROUTER_API_KEY = None
    /\ \E file \in SearchConfigFiles : SEARCH_CONFIG = load_search_config(file)
    /\ user_message = <<>>
    /\ pc = "search_start"
    /\ search_decision = None
    /\ search_query \in SearchQueries
    /\ search_results = None
    /\ reply = None
    /\ raised = FALSE
    /\ calls = <<>>
    /\ ddgs = NoProvider
    /\ text = None
    /\ cleaned = None
    /\ recleaned = None
    /\ NoRequest

\* one call of perform_search(search_query)
PerformSearch ==
    /\ pc = "search_start"
    /\ \E provider \in SearchProviderOutcomes :
         /\ search_results' = perform_search(search_query, provider)
         /\ ddgs' = provider
         /\ calls' = Append(calls, SearchCall(search_query, provider))
    /\ pc' = "searched"
    /\ UNCHANGED hvars
    /\ UNCHANGED <<OPENROUTER_API_KEY, SEARCH_CONFIG, user_message, search_decision,
                   search_query, reply, raised, text, cleaned, recleaned>>

NextSearch == PerformSearch

SpecSearch == InitSearch /\ [][NextSearch]_vars

(***************************************************************************)
(* clean_text on its own, applied once and then to its own result          *)
(***************************************************************************)
MaxTextLen == 5

CleanAlphabet == {"a", " ", "&", ";", "<", ">"}

TextsOfLen(n) == [1..n -> CleanAlphabet]

TextInputs ==
    UNION {TextsOfLen(n) : n \in 0..MaxTextLen}
    \cup {None, Chars("a &amp; b"), Chars("&am&amp;p;"), Chars("&<b>amp;"),
          Chars("x\n\t y &#39;z&nbsp; <a href='u'>w</a>"), Chars("a & b; c < d > e"),
          <<"U+00A0">> \o Chars("a b") \o <<"U+3000">>,
          Chars("a") \o <<"U+00A0", "U+000B">> \o Chars("b") \o <<"U+001C">>,
          <<"a", "U+200B", " ", "U+2028", "b">>}

InitClean ==
    /\ OPENROUTER_API_KEY = None
    /\ SEARCH_CONFIG = FallbackConfig
    /\ user_message = <<>>
    /\ pc = "clean_start"
    /\ search_decision = None
    /\ search_query = None
    /\ search_results = None
    /\ reply = None
    /\ raised = FALSE
    /\ calls = <<>>
    /\ ddgs = NoProvider
    /\ text \in TextInputs
    /\ cleaned = None
    /\ recleaned = None
    /\ NoRequest

\* cleaned = clean_text(text)
CleanText ==
    /\ pc = "clean_start"
    /\ cleaned' = clean_text(text)
    /\ pc' = "cleaned"
    /\ UNCHANGED hvars
    /\ UNCHANGED <<OPENROUTER_API_KEY, SEARCH_CONFIG, user_message, search_decision,
                   search_query, search_results, reply, raised, calls, ddgs, text,
                   recleaned>>

\* recleaned = clean_text(cleaned)
CleanAgain ==
    /\ pc = "cleaned"
    /\ recleaned' = clean_text(cleaned)
    /\ pc' = "recleaned"
    /\ UNCHANGED hvars
    /\ UNCHANGED <<OPENROUTER_API_KEY, SEARCH_CONFIG, user_message, search_decision,
                   search_query, search_results, reply, raised, calls, ddgs, text,
                   cleaned>>

NextClean == CleanText \/ CleanAgain

SpecClean == InitClean /\ [][NextClean]_vars

(***************************************************************************)
(* lambda_handler (app.py:75-133) with validate_signature (app.py:136-169)  *)
(* and handle_text_message (app.py:172-207).  WebhookHandler.handle is the  *)
(* library's: it checks the signature, parses the body and calls the        *)
(* registered function for every text message event; the model takes each  *)
(* of its outcomes.  generate_response runs as the actions above.           *)
(***************************************************************************)
Response(code, body) == [statusCode |-> code, body |-> Chars(body)]

\* app.py:477-484
health_check == Response(200, "{\"status\": \"healthy\", \"service\": \"LINE Bot\"}")

\* app.py:111-114
OkResponse == Response(200, "{\"message\": \"OK\"}")

\* app.py:98-101, 118-121
ForbiddenResponse == Response(403, "{\"error\": \"Invalid signature\"}")

\* app.py:124-127
ApiErrorResponse == Response(500, "{\"error\": \"LINE Bot API error\"}")

\* app.py:130-133
InternalErrorResponse == Response(500, "{\"error\": \"Internal server error\"}")

\* app.py:116-133, the except clauses of lambda_handler, in their order
ExceptResponse(exception) ==
    IF exception = "InvalidSignatureError" THEN ForbiddenResponse
    ELSE IF exception = "LineBotApiError" THEN ApiErrorResponse
    ELSE InternalErrorResponse

\* app.py:146-157: the base64 text of the HMAC-SHA256 of the bytes under the
\* secret, kept as a term that names both
Base64Hmac(secret, body_bytes) ==
    Chars("hmac(") \o secret \o Chars(",") \o body_bytes \o Chars(")")

\* app.py:146-149: the bytes hmac.new digests; with body None it digests nothing
BodyBytes(body) == IF body = None THEN <<>> ELSE body

\* validate_signature accepting every non-empty signature
validate_signatureAnyText(body, sig) == Truthy(CHANNEL_SECRET) /\ Truthy(sig)

\* app.py:136-169
validate_signature(body, sig) ==
    IF ~Truthy(CHANNEL_SECRET) \/ ~Truthy(sig) THEN FALSE
    ELSE sig = Base64Hmac(CHANNEL_SECRET, BodyBytes(body))

\* app.py:92: headers.get('X-Line-Signature') or headers.get('x-line-signature', '')
HeaderSignature(headers) ==
    LET first == Get(headers, "X-Line-Signature", None)
    IN  IF Truthy(first) THEN first ELSE Get(headers, "x-line-signature", <<>>)

\* app.py:203
ErrorReplyText == Chars("Sorry, I encountered an error. Please try again.")

(***************************************************************************)
(* Requests                                                                *)
(***************************************************************************)
TextEvent(message) == [type |-> "message", text |-> message]

FollowEvent == [type |-> "follow", text |-> <<>>]

EventJson(e) ==
    IF e.type = "message"
    THEN Chars("{\"type\":\"message\",\"replyToken\":\"r\",\"source\":{\"type\":\"user\",")
         \o Chars("\"userId\":\"u\"},\"message\":{\"type\":\"text\",\"id\":\"1\",\"text\":\"")
         \o e.text \o Chars("\"}}")
    ELSE Chars("{\"type\":\"follow\",\"replyToken\":\"r\",\"source\":{\"type\":\"user\",")
         \o Chars("\"userId\":\"u\"}}")

RECURSIVE EventsJson(_)
EventsJson(payload) ==
    IF payload = <<>> THEN <<>>
    ELSE IF Len(payload) = 1 THEN EventJson(payload[1])
    ELSE EventJson(payload[1]) \o <<",">> \o EventsJson(Tail(payload))

\* the body of a webhook request holding the events of payload
PayloadJson(payload) == Chars("{\"events\":[") \o EventsJson(payload) \o Chars("]}")

Payloads ==
    {<<>>, <<TextEvent(Chars("help"))>>, <<TextEvent(Chars("ab"))>>,
     <<TextEvent(Chars("search ab"))>>,
     <<FollowEvent, TextEvent(Chars("hello")), TextEvent(Chars("what time"))>>}

\* body is a text the library can parse
Parseable(body) == \E payload \in Payloads : body = PayloadJson(payload)

\* the events the library parses out of body
WebhookEvents(body) == CHOOSE payload \in Payloads : body = PayloadJson(payload)

Secrets == {None, <<>>, Chars("cs")}

Tokens == {None, Chars("tok")}

HandlerKeys == {None, Chars("sk")}

\* the signatures sent with body: the right one, the one made with another
\* secret, the one of another body, and a text that is no digest
SignaturesFor(body) ==
    {Base64Hmac(Chars("cs"), BodyBytes(body)), Base64Hmac(Chars("other"), BodyBytes(body)),
     Base64Hmac(Chars("cs"), Chars("{}")), Chars("bad")}

\* the headers dicts sent with body, a null among them
HeadersFor(body) ==
    {EmptyDict, JsonNull, [k \in {"X-Line-Signature"} |-> <<>>],
     [k \in {"X-Line-Signature", "x-line-signature"} |->
        IF k = "X-Line-Signature" THEN <<>> ELSE Base64Hmac(Chars("cs"), BodyBytes(body))]}
    \cup {[k \in {"X-Line-Signature"} |-> sig] : sig \in SignaturesFor(body)}
    \cup {[k \in {"x-line-signature"} |-> sig] : sig \in SignaturesFor(body)}

Bodies == {None, <<>>, Chars("no json")} \cup {PayloadJson(payload) : payload \in Payloads}

Post(path, body, headers) ==
    [httpMethod |-> Chars("POST"), path |-> Chars(path), body |-> body, headers |-> headers]

\* the events lambda_handler is called with
Requests ==
    {[httpMethod |-> Chars("GET"), path |-> Chars("/health")],
     [httpMethod |-> Chars("GET"), path |-> Chars("/webhook")],
     [httpMethod |-> Chars("POST"), path |-> Chars("/health")],
     [httpMethod |-> Chars("POST"), path |-> Chars("/webhook"),
      body |-> PayloadJson(<<TextEvent(Chars("help"))>>)],
     EmptyDict}
    \cup UNION {{Post("/webhook", body, headers) : headers \in HeadersFor(body)} :
                body \in Bodies}

InitHandler ==
    /\ OPENROUTER_API_KEY \in HandlerKeys
    /\ SEARCH_CONFIG = FallbackConfig
    /\ user_message = <<>>
    /\ pc = "idle"
    /\ search_decision = None
    /\ search_query = None
    /\ search_results = None
    /\ reply = None
    /\ raised = FALSE
    /\ calls = <<>>
    /\ ddgs = NoProvider
    /\ text = None
    /\ cleaned = None
    /\ recleaned = None
    /\ CHANNEL_ACCESS_TOKEN \in Tokens
    /\ CHANNEL_SECRET \in Secrets
    /\ ENABLE_SIGNATURE_VALIDATION \in BOOLEAN
    /\ event \in Requests
    /\ hpc = "request"
    /\ signature = None
    /\ events = <<>>
    /\ handled = 0
    /\ replies = <<>>
    /\ lambda_response = NoResponse

\* lambda_handler returns r
ReturnResponse(r) == lambda_response' = r /\ hpc' = "done"

\* app.py:79-106: from the entry of lambda_handler to the call of handler.handle
LambdaHandler ==
    /\ hpc = "request"
    /\ LET http_method == Get(event, "httpMethod", <<>>)
           path == Get(event, "path", <<>>)
           body == Get(event, "body", <<>>)
           headers == Get(event, "headers", EmptyDict)
       IN  IF http_method = Chars("GET") /\ path = Chars("/health")
           THEN ReturnResponse(health_check) /\ UNCHANGED signature
           ELSE IF headers = JsonNull
           THEN ReturnResponse(ExceptResponse("AttributeError")) /\ UNCHANGED signature
           ELSE /\ signature' = HeaderSignature(headers)
                /\ IF /\ ENABLE_SIGNATURE_VALIDATION
                      /\ ~validate_signature(body, HeaderSignature(headers))
                   THEN ReturnResponse(ForbiddenResponse)
                   ELSE hpc' = "handle" /\ UNCHANGED lambda_response
    /\ UNCHANGED <<CHANNEL_ACCESS_TOKEN, CHANNEL_SECRET, ENABLE_SIGNATURE_VALIDATION, event,
                   events, handled, replies>>
    /\ UNCHANGED <<OPENROUTER_API_KEY, SEARCH_CONFIG, user_message, pc, search_decision,
                   search_query, search_results, reply, raised, calls, ddgs, text,
                   cleaned, recleaned>>

\* app.py:109: handler.handle(body, signature) raises InvalidSignatureError,
\* raises another exception, or starts to dispatch the events of the body
WebhookHandle ==
    /\ hpc = "handle"
    /\ LET body == Get(event, "body", <<>>)
       IN  \/ ReturnResponse(ExceptResponse("InvalidSignatureError")) /\ UNCHANGED events
           \/ ReturnResponse(ExceptResponse("Exception")) /\ UNCHANGED events
           \/ /\ Parseable(body)
              /\ events' = WebhookEvents(body)
              /\ hpc' = "dispatch"
              /\ UNCHANGED lambda_response
    /\ UNCHANGED <<CHANNEL_ACCESS_TOKEN, CHANNEL_SECRET, ENABLE_SIGNATURE_VALIDATION, event,
                   signature, handled, replies>>
    /\ UNCHANGED <<OPENROUTER_API_KEY, SEARCH_CONFIG, user_message, pc, search_decision,
                   search_query, search_results, reply, raised, calls, ddgs, text,
                   cleaned, recleaned>>

\* app.py:109-114: an event no function is registered for is passed over; after
\* the last event handler.handle returns and lambda_handler answers 200
DispatchOther ==
    /\ hpc = "dispatch"
    /\ IF events = <<>>
       THEN ReturnResponse(OkResponse) /\ UNCHANGED events
       ELSE /\ Head(events).type # "message"
            /\ events' = Tail(events)
            /\ UNCHANGED <<hpc, lambda_response>>
    /\ UNCHANGED <<CHANNEL_ACCESS_TOKEN, CHANNEL_SECRET, ENABLE_SIGNATURE_VALIDATION, event,
                   signature, handled, replies>>
    /\ UNCHANGED <<OPENROUTER_API_KEY, SEARCH_CONFIG, user_message, pc, search_decision,
                   search_query, search_results, reply, raised, calls, ddgs, text,
                   cleaned, recleaned>>

\* app.py:177-189: handle_text_message up to the call of generate_response
HandleTextMessage ==
    /\ hpc = "dispatch"
    /\ events # <<>>
    /\ Head(events).type = "message"
    /\ handled' = handled + 1
    /\ IF ~Truthy(CHANNEL_ACCESS_TOKEN)
       THEN /\ events' = Tail(events)
            /\ UNCHANGED <<hpc, user_message, pc>>
       ELSE /\ user_message' = Head(events).text
            /\ pc' = "start"
            /\ hpc' = "generate"
            /\ UNCHANGED events
    /\ search_decision' = None
    /\ search_query' = None
    /\ search_results' = None
    /\ reply' = None
    /\ raised' = FALSE
    /\ UNCHANGED <<CHANNEL_ACCESS_TOKEN, CHANNEL_SECRET, ENABLE_SIGNATURE_VALIDATION, event,
                   signature, replies, lambda_response>>
    /\ UNCHANGED <<OPENROUTER_API_KEY, SEARCH_CONFIG, calls, ddgs, text, cleaned, recleaned>>

\* what reply_message does: the platform takes the text, or LineBotApiError
ReplyOutcomes == {"ok", "LineBotApiError"}

\* app.py:191-207: the reply with what generate_response returned; when that
\* or generate_response raised, the reply with the error text, whose own
\* failure is logged only
ReplyMessage ==
    /\ hpc = "generate"
    /\ pc = "done"
    /\ \E first \in ReplyOutcomes, second \in ReplyOutcomes :
         replies' = IF ~raised /\ first = "ok" THEN Append(replies, reply)
                    ELSE IF second = "ok" THEN Append(replies, ErrorReplyText)
                    ELSE replies
    /\ events' = Tail(events)
    /\ hpc' = "dispatch"
    /\ pc' = "idle"
    /\ UNCHANGED <<CHANNEL_ACCESS_TOKEN, CHANNEL_SECRET, ENABLE_SIGNATURE_VALIDATION, event,
                   signature, handled, lambda_response>>
    /\ UNCHANGED <<OPENROUTER_API_KEY, SEARCH_CONFIG, user_message, search_decision,
                   search_query, search_results, reply, raised, calls, ddgs, text,
                   cleaned, recleaned>>

NextHandler ==
    \/ LambdaHandler
    \/ WebhookHandle
    \/ DispatchOther
    \/ HandleTextMessage
    \/ ReplyMessage
    \/ Next

SpecHandler == InitHandler /\ [][NextHandler]_vars

(***************************************************************************)
(* Properties                                                              *)
(***************************************************************************)
\* the number of calls of the helper fn so far
Count(fn) == Len(SelectSeq(calls, LAMBDA c : c.fn = fn))

\* word occurs in message once its letters are put in lower case
HasWord(message, word) == Contains(lower(message), Chars(word))

\* the letter of ASCII that c is a caseless match of (Unicode's simple case
\* folding: the long s U+017F folds to s and the Kelvin sign U+212A to k), c
\* itself when there is none
CaseFold(c) ==
    IF c = "U+017F" THEN "s"
    ELSE IF c = "U+212A" THEN "k"
    ELSE IF \E i \in 1..Len(UpperAlpha) : UpperAlpha[i] = c
    THEN LowerAlpha[CHOOSE i \in 1..Len(UpperAlpha) : UpperAlpha[i] = c]
    ELSE c

\* the text holds a caseless match of the tag, given in lower case
HasCaseless(response, tag) ==
    Contains([i \in 1..Len(response) |-> CaseFold(response[i])], Chars(tag))

GreetingMessage == HasWord(user_message, "hello") \/ HasWord(user_message, "hi")

CommandMessage ==
    GreetingMessage \/ HasWord(user_message, "help") \/ HasWord(user_message, "time")

SearchCommandMessage == startswith(lower(user_message), Chars("search "))

NoCredentials == OPENROUTER_API_KEY \in {None, <<>>}

TrimmedRemainder == strip(SubSeq(user_message, 8, Len(user_message)))

\* C1: generate_response never raises to its caller and returns a non-empty
\* string, whatever the message, the credentials and the external calls do.
C1_NeverRaisesNonEmpty ==
    pc = "done" => ~raised /\ reply # None /\ reply # <<>>

\* C2: one message makes at most one classification call, at most one search
\* call and at most one answer-generation call, and no call is made again
\* after it failed.
C2_AtMostOneCallOfEachKind ==
    /\ Count("analyze_search_need") <= 1
    /\ Count("perform_search") <= 1
    /\ Count("generate_contextual_response") + Count("generate_ai_response_http") <= 1
    /\ \A i \in 1..Len(calls) : \A j \in (i + 1)..Len(calls) :
         calls[i].failed => calls[j].fn # calls[i].fn

\* C3: without completion credentials a message that is no command gets the
\* fixed fallback string holding the message, and no classification, search
\* or completion call is made.
C3_NoCredentialsFallback ==
    (NoCredentials /\ ~CommandMessage /\ ~SearchCommandMessage)
    => /\ calls = <<>>
       /\ pc \in {"start", "done"}
       /\ pc = "done" => ~raised /\ reply = FallbackText(user_message)

\* C3 witness: a non-command message answered with the fallback, no credentials
C3_Witness ==
    /\ pc = "done"
    /\ OPENROUTER_API_KEY = <<>>
    /\ user_message = Chars("What's new?")
    /\ reply = FallbackText(user_message)
    /\ calls = <<>>

\* C4: a message holding "hello" or "hi" gets the canned greeting, also when it
\* holds help or time or starts with "search ", with and without credentials.
C4_GreetingOutranksAll ==
    GreetingMessage
    => /\ pc \in {"start", "done"}
       /\ pc = "done" => ~raised /\ reply = GreetingText

\* C4 witness: "search hi" answered with the greeting, credentials configured
C4_Witness ==
    /\ pc = "done"
    /\ GreetingMessage
    /\ SearchCommandMessage
    /\ Truthy(OPENROUTER_API_KEY)
    /\ reply = GreetingText

\* C5: a message matched by the greeting, help or time command gets its canned
\* reply and no classification, search or completion call is made.
C5_CommandsMakeNoCalls ==
    CommandMessage
    => /\ calls = <<>>
       /\ pc \in {"start", "done"}
       /\ pc = "done"
          => /\ ~raised
             /\ \/ reply \in {GreetingText, HelpText}
                \/ \E now \in Clock : reply = TimeText(now)

\* C5 witness: "search help" answered with the help text and no call, credentials
\* configured
C5_Witness ==
    /\ pc = "done"
    /\ user_message = Chars("search help")
    /\ Truthy(OPENROUTER_API_KEY)
    /\ reply = HelpText
    /\ calls = <<>>

\* what C6 says of a message: the first call is the search for the trimmed
\* remainder, no classification is made, and zero results give the no-results
\* string holding that query
SearchCommandOutcome ==
    /\ Len(calls) >= 1
    /\ calls[1].fn = "perform_search"
    /\ calls[1].arg = TrimmedRemainder
    /\ Count("analyze_search_need") = 0
    /\ ddgs = ProviderOk(<<>>) => ~raised /\ reply = NoResultsText(TrimmedRemainder)

\* C6 as stated: every message starting with "search " is searched directly for
\* its trimmed remainder, and zero results give the no-results string.
C6_EverySearchCommandSearches ==
    (pc = "done" /\ SearchCommandMessage) => SearchCommandOutcome

\* C6 amended: a message starting with "search " that holds none of hello, hi,
\* help, time is searched directly for its trimmed remainder, and zero results
\* give the no-results string.
C6_SearchCommandWithoutCommandWord ==
    (pc = "done" /\ SearchCommandMessage /\ ~CommandMessage) => SearchCommandOutcome

\* C6 witness: "Search  cats " searched for "cats" with zero results
C6_Witness ==
    /\ pc = "done"
    /\ user_message = Chars("Search  cats ")
    /\ ddgs = ProviderOk(<<>>)
    /\ calls[1].arg = Chars("cats")
    /\ reply = NoResultsText(Chars("cats"))

NoTag == Chars("<search>NO</search>")

ClassifierSaidNo == search_decision # None /\ Contains(search_decision, NoTag)

\* C7 as stated: when the classifier's text holds <search>NO</search>, no search
\* is made, whatever else the text holds.
C7_NoTagNeverSearches ==
    ClassifierSaidNo => Count("perform_search") = 0

\* C7 amended: when the classifier's text holds <search>NO</search> and does not
\* hold <search>YES</search> in any letter case, no search is made.
C7_NoTagWithoutYesTagNeverSearches ==
    (ClassifierSaidNo /\ ~HasCaseless(search_decision, "<search>yes</search>"))
    => Count("perform_search") = 0

\* C7 witness: the classifier answered NO with a suggested query, and the reply
\* was made without a search
C7_Witness ==
    /\ pc = "done"
    /\ search_decision = ClassifierText(Chars("NO"), Chars(" Need data. "), <<"\"">>,
                                        Chars("weather today"))
    /\ Count("analyze_search_need") = 1
    /\ Count("perform_search") = 0
    /\ reply = Chars("It is sunny.")

\* C8: when the classifier's text is <search>YES</search> ... Search: "X", the
\* query searched for is X, trimmed, for every X.
C8_QueryIsTheSuggestion ==
    \A r \in Rationales, x \in QueryTexts :
        (/\ search_decision = strip(ClassifierText(Chars("YES"), r, <<"\"">>, x))
         /\ Count("perform_search") > 0)
        => search_query = strip(x)

\* perform_search rendered a non-empty result list
Rendered == pc = "searched" /\ ddgs.status = "ok" /\ ddgs.results # <<>>

\* C9 as stated: the rendering perform_search returns never exceeds 1800
\* characters.
C9_RenderingWithinLimit ==
    Rendered => Len(search_results) <= ResponseLimit

\* C9 amended: a rendering longer than 1800 characters is cut to its first 1800
\* characters and the hint is appended, a shorter one is returned whole; the
\* result never exceeds 1800 characters plus the length of the hint.
C9_RenderingCutThenHint ==
    Rendered
    => LET raw == RenderResults(search_query, ddgs.results)
       IN  /\ Len(search_results) <= ResponseLimit + Len(TruncationHint)
           /\ Len(raw) > ResponseLimit
              => search_results = SubSeq(raw, 1, ResponseLimit) \o TruncationHint
           /\ Len(raw) <= ResponseLimit => search_results = raw

\* C9 witness: a rendering one character over the limit, returned cut with the
\* hint
C9_Witness ==
    /\ Rendered
    /\ Len(RenderResults(search_query, ddgs.results)) = ResponseLimit + 1
    /\ Len(search_results) = ResponseLimit + Len(TruncationHint)

HasEntity(s) == \E i \in 1..Len(s) : EntityEnd(s, i) > 0

HasTag(s) ==
    \E i \in 1..Len(s) : \E j \in (i + 2)..Len(s) :
        s[i] = "<" /\ s[j] = ">" /\ \A k \in (i + 1)..(j - 1) : s[k] # ">"

\* C10: clean_text is idempotent, and its result has no leading or trailing
\* whitespace, no run of whitespace longer than one space, no entity, no tag.
C10_CleanTextIdempotentAndClean ==
    pc = "recleaned"
    => /\ recleaned = cleaned
       /\ cleaned # <<>> => ~IsSpace(cleaned[1]) /\ ~IsSpace(cleaned[Len(cleaned)])
       /\ \A i \in 1..(Len(cleaned) - 1) : ~(IsSpace(cleaned[i]) /\ IsSpace(cleaned[i + 1]))
       /\ \A i \in 1..Len(cleaned) : IsSpace(cleaned[i]) => cleaned[i] = " "
       /\ ~HasEntity(cleaned)
       /\ ~HasTag(cleaned)

\* the classifier's text is <search>YES</search> ... Search: "x"
SuggestedQuery(x) ==
    \E r \in Rationales :
        search_decision = strip(ClassifierText(Chars("YES"), r, <<"\"">>, x))

\* the search provider returned a non-empty list
ProviderFound == ddgs.status = "ok" /\ ddgs.results # <<>>

\* every completion call logged so far came back with a non-empty text
CompletionsAnswered ==
    \A i \in 1..Len(calls) : calls[i].fn # "perform_search" => calls[i].out \notin {None, <<>>}

\* C11: for a non-command message with credentials, when the classifier's text
\* holds <search>YES</search> and Search: "Q", the search finds results and the
\* completions answer, the calls are exactly classify, search for Q, one
\* contextual composition whose user content holds the rendered results, and
\* the reply is that completion's non-empty output.
C11_ClassifySearchCompose ==
    \A x \in QueryTexts :
        (pc = "done" /\ SuggestedQuery(x) /\ ProviderFound /\ CompletionsAnswered)
        => /\ Len(calls) = 3
           /\ calls[1].fn = "analyze_search_need"
           /\ calls[2].fn = "perform_search"
           /\ calls[2].arg = strip(x)
           /\ calls[3].fn = "generate_contextual_response"
           /\ Contains(calls[3].arg, calls[2].out)
           /\ ~raised
           /\ reply = calls[3].out
           /\ reply # <<>>

\* the classifier answered and its text holds <search>YES</search>, in any
\* letter case
ClassifierSaidYes ==
    search_decision # None /\ HasCaseless(search_decision, "<search>yes</search>")

\* the search of the LLM-assisted path was made and the provider raised
LlmSearchFailed == ClassifierSaidYes /\ Count("perform_search") = 1 /\ ddgs.status = "error"

\* the search of the LLM-assisted path was made and the provider found nothing
LlmSearchEmpty == ClassifierSaidYes /\ Count("perform_search") = 1 /\ ddgs = ProviderOk(<<>>)

\* C12: on the LLM-assisted path, when the classifier asks for a search and the
\* search fails or finds nothing, the next call is the direct answer: no
\* contextual composition is called, and neither the search-failed nor the
\* no-results message is the reply.
C12_FailedSearchGoesToDirectAnswer ==
    (LlmSearchFailed \/ LlmSearchEmpty)
    => /\ Count("generate_contextual_response") = 0
       /\ pc \in {"direct", "except", "done"}
       /\ Len(calls) >= 3 => calls[3].fn = "generate_ai_response_http"
       /\ reply \notin {SearchErrorText(search_query), NoResultsText(search_query)}

\* the i-th call is a contextual composition whose completion gave no text:
\* no credentials, an exception of the request or of the parsing, or an
\* empty text
ContextualFailedAt(i) ==
    calls[i].fn = "generate_contextual_response" /\ calls[i].out \in {None, <<>>}

\* C13: whenever contextual composition is called, from the search command or
\* from the LLM-assisted path, and its completion fails or is empty, no
\* further call is made and the reply is the formatted search results,
\* unmodified.
C13_FailedCompositionGivesRawResults ==
    \A i \in 1..Len(calls) :
        ContextualFailedAt(i)
        => /\ i = Len(calls)
           /\ pc = "done"
           /\ ~raised
           /\ reply = search_results

\* a direct-answer call raised: a transport error, a non-2xx status, a
\* timeout or a malformed body
DirectAnswerFailed ==
    \E i \in 1..Len(calls) : calls[i].fn = "generate_ai_response_http" /\ calls[i].failed

\* C14: when the direct-answer call fails, generate_response returns the fixed
\* fallback string that echoes the message and apologizes.
C14_FailedDirectAnswerGivesFallback ==
    (pc = "done" /\ DirectAnswerFailed)
    => ~raised /\ reply = FallbackText(user_message)

\* the search of the search command was made
CommandSearchMade == SearchCommandMessage /\ ~CommandMessage /\ Count("perform_search") = 1

\* C15: for the search command, contextual composition is called only when the
\* search found results; when the search finds nothing or fails, the reply is
\* the no-results or the search-failed message, verbatim, and no completion
\* call is made.
C15_CommandComposesOnlyFoundResults ==
    (CommandSearchMade /\ ~ProviderFound)
    => /\ calls = <<SearchCall(search_query, ddgs)>>
       /\ pc = "done"
       /\ ~raised
       /\ reply = IF ddgs.status = "ok" THEN NoResultsText(search_query)
                  ELSE SearchErrorText(search_query)

\* the classification call was made and raised
ClassifierFailed ==
    Len(calls) >= 1 /\ calls[1].fn = "analyze_search_need" /\ calls[1].failed

\* C16: when the classification call fails, no search and no contextual
\* composition is made; the one call that follows is a direct answer to the
\* message, and when that call succeeds its output is the reply and nothing is
\* raised.
C16_FailedClassifierGoesToDirectAnswer ==
    ClassifierFailed
    => /\ Count("perform_search") = 0
       /\ Count("generate_contextual_response") = 0
       /\ Len(calls) <= 2
       /\ pc \in {"except", "done"}
       /\ pc = "done"
          => /\ Len(calls) = 2
             /\ calls[2].fn = "generate_ai_response_http"
             /\ calls[2].arg = user_message
             /\ ~calls[2].failed => ~raised /\ reply = calls[2].out

\* C16 witness: the classifier failed and the direct answer is the reply
C16_Witness ==
    /\ pc = "done"
    /\ ClassifierFailed
    /\ Len(calls) = 2
    /\ ~calls[2].failed
    /\ reply = Chars("It is sunny.")

\* the classification call came back with a text
ClassifierAnswered ==
    Len(calls) >= 1 /\ calls[1].fn = "analyze_search_need" /\ ~calls[1].failed

\* the text the classification call came back with holds <search>YES</search>,
\* in any letter case
AnswerHasYesTag == HasCaseless(calls[1].out, "<search>yes</search>")

\* C17: on the LLM-assisted path the search provider is called if and only if
\* the classifier's text holds <search>YES</search> in any letter case; with
\* any other text, the empty one included, the next call is the direct answer.
C17_SearchIffYesTag ==
    ClassifierAnswered
    => IF AnswerHasYesTag
       THEN \/ pc = "llm_search" /\ Len(calls) = 1
            \/ Len(calls) >= 2 /\ calls[2].fn = "perform_search"
       ELSE /\ Count("perform_search") = 0
            /\ \/ pc = "direct" /\ Len(calls) = 1
               \/ Len(calls) >= 2 /\ calls[2].fn = "generate_ai_response_http"

\* C17 witness: a lower-case tag, and the search was made
C17_Witness ==
    /\ ClassifierAnswered
    /\ Contains(calls[1].out, Chars("<search>yes</search>"))
    /\ Len(calls) >= 2
    /\ calls[2].fn = "perform_search"

\* the first n characters of s, all of s when it is shorter
CutTo(s, n) == SubSeq(s, 1, IF Len(s) < n THEN Len(s) ELSE n)

\* the number of entries shown: the configured maximum or the number of
\* results the provider returned, whichever is smaller
ShownCount ==
    IF Len(ddgs.results) < MaxResultsSetting THEN Len(ddgs.results) ELSE MaxResultsSetting

\* the k-th entry: number, title cut to 80 characters, snippet cut to
\* summary_length characters and then cleaned
NumberedEntry(k) ==
    LET result == ddgs.results[k]
        title == IF "title" \in DOMAIN result THEN result.title ELSE Chars("No title")
        body == IF "body" \in DOMAIN result THEN result.body ELSE Chars("No description")
    IN  str_int(k) \o Chars(". ") \o CutTo(title, TitleLimit) \o <<"\n">>
        \o clean_text(CutTo(body, SummaryLengthSetting)) \o Chars("...\n")

RECURSIVE EntriesUpTo(_)
\* the entries 1..k in the provider's order, each after a line break
EntriesUpTo(k) ==
    IF k = 0 THEN <<>> ELSE EntriesUpTo(k - 1) \o <<"\n">> \o NumberedEntry(k)

\* the header naming the query, then the entries 1..ShownCount
HeaderAndEntries ==
    <<"U+00F0", "U+0178", "U+201D">> \o Chars(" Search results for '") \o search_query
    \o Chars("':\n") \o EntriesUpTo(ShownCount)

\* C18: for a non-empty result list the rendering of perform_search, before the
\* cut to 1800 characters, is the header naming the query followed by at most
\* max_results entries numbered 1..k in the provider's order, each with the
\* title cut to 80 characters and the snippet cut to summary_length characters
\* before clean_text is applied.
C18_HeaderThenNumberedEntries ==
    Rendered
    => /\ ShownCount <= MaxResultsSetting
       /\ IF Len(HeaderAndEntries) <= ResponseLimit
          THEN search_results = HeaderAndEntries
          ELSE CutTo(search_results, ResponseLimit) = CutTo(HeaderAndEntries, ResponseLimit)

\* C18 witness: more results than max_results, a title longer than 80
\* characters and a body longer than summary_length, rendered whole
C18_Witness ==
    /\ Rendered
    /\ Len(ddgs.results) > MaxResultsSetting
    /\ Len(ddgs.results[1].title) > TitleLimit
    /\ Len(ddgs.results[1].body) > SummaryLengthSetting
    /\ search_query = Chars("ab")
    /\ search_results = HeaderAndEntries

\* the search_settings of the loaded configuration, empty when the key is absent
LoadedSettings ==
    IF "search_settings" \in DOMAIN SEARCH_CONFIG THEN SEARCH_CONFIG.search_settings
    ELSE EmptyDict

\* C19: when the configuration file is missing or unparsable, or holds no
\* search_settings, or search_settings lacks a key, perform_search uses
\* max_results = 3 and summary_length = 200 for what is unset: it shows at most
\* 3 entries and no snippet of more than 200 characters.
C19_UnsetSettingsAreThreeAndTwoHundred ==
    Rendered
    => /\ "max_results" \notin DOMAIN LoadedSettings
          => /\ MaxResultsSetting = 3
             /\ ~Contains(search_results, Chars("\n4. "))
       /\ "summary_length" \notin DOMAIN LoadedSettings
          => /\ SummaryLengthSetting = 200
             /\ ~Contains(search_results, Rep("b", 201))

\* the request is GET /health
HealthRequest ==
    /\ "httpMethod" \in DOMAIN event /\ event.httpMethod = Chars("GET")
    /\ "path" \in DOMAIN event /\ event.path = Chars("/health")

\* the event holds a null where the headers are expected
NullHeaders == "headers" \in DOMAIN event /\ event.headers = JsonNull

\* the non-empty values of the signature headers of the request
SentSignatures ==
    IF "headers" \notin DOMAIN event \/ NullHeaders THEN {}
    ELSE {event.headers[k] : k \in DOMAIN event.headers
                                   \cap {"X-Line-Signature", "x-line-signature"}} \ {<<>>}

\* the signature the platform makes for the body of the request with the
\* channel secret
RightSignature ==
    Base64Hmac(CHANNEL_SECRET,
               IF "body" \in DOMAIN event /\ event.body # None THEN event.body ELSE <<>>)

\* the channel secret is missing, or the request has no signature, or none
\* that matches
SignatureRejected ==
    \/ CHANNEL_SECRET \in {None, <<>>}
    \/ \A sig \in SentSignatures : sig # RightSignature

\* nothing of the webhook was handled: no event dispatched, no call of
\* handle_text_message, no step of generate_response, no reply
NothingHandled ==
    /\ hpc \in {"request", "done"}
    /\ events = <<>>
    /\ handled = 0
    /\ pc = "idle"
    /\ calls = <<>>
    /\ replies = <<>>

\* what lambda_handler returns has one of the three status codes
StatusCodeKnown == hpc = "done" => lambda_response.statusCode \in {200, 403, 500}

\* C20 as stated: lambda_handler returns a response with status 200, 403 or
\* 500; with the validation enabled and a request that is not GET /health, a
\* missing or non-matching signature or a missing channel secret gives 403,
\* and nothing of the webhook is handled.
C20_RejectedSignatureGives403 ==
    /\ StatusCodeKnown
    /\ (ENABLE_SIGNATURE_VALIDATION /\ ~HealthRequest /\ SignatureRejected)
       => /\ NothingHandled
          /\ hpc = "done" => lambda_response.statusCode = 403

\* C20 amended: lambda_handler returns a response with status 200, 403 or 500;
\* with the validation enabled and a request that is not GET /health, a
\* missing or non-matching signature or a missing channel secret gives 403
\* when the headers of the event are a dict or absent and 500 when they are
\* null, and in both cases nothing of the webhook is handled.
C20_RejectedSignatureGives403Or500 ==
    /\ StatusCodeKnown
    /\ (ENABLE_SIGNATURE_VALIDATION /\ ~HealthRequest /\ SignatureRejected)
       => /\ NothingHandled
          /\ hpc = "done"
             => lambda_response.statusCode = IF NullHeaders THEN 500 ELSE 403

\* C20 witness: a text message event signed with another secret, answered 403
C20_Witness ==
    /\ hpc = "done"
    /\ ENABLE_SIGNATURE_VALIDATION
    /\ CHANNEL_SECRET = Chars("cs")
    /\ CHANNEL_ACCESS_TOKEN = Chars("tok")
    /\ "body" \in DOMAIN event
    /\ event.body = PayloadJson(<<TextEvent(Chars("ab"))>>)
    /\ SentSignatures = {Base64Hmac(Chars("other"), event.body)}
    /\ lambda_response = ForbiddenResponse
    /\ NothingHandled

====
